---- MODULE Spec2Model ----
(***************************************************************************)
(* A model of the procedural-generation crate (src/src/lib.rs): the        *)
(* Generator builder, its map, its accepted-room history and the methods   *)
(* with_seed, with_size, with_options, spawn_perlin, spawn_rooms, get and  *)
(* set.                                                                    *)
(*                                                                         *)
(* usize values are kept as the representative of their residue modulo     *)
(* 2^64 that lies in (-2^63, 2^63): every quantity of the model is small,  *)
(* so a negative representative v stands for the wrapped value 2^64 + v,   *)
(* and +, - and * on representatives are exactly the wrapping operations.  *)
(* Comparisons are the unsigned ones (ULe, ULt).                           *)
(***************************************************************************)
EXTENDS Integers, Sequences, FiniteSets, TLC

VARIABLES gen, live, overflow_checks, rng, noise, last, calls, attempted

vars == <<gen, live, overflow_checks, rng, noise, last, calls, attempted>>

(* ------------------------------ bounds --------------------------------- *)

\* grid widths offered to with_size: 1..MaxWidth (new() gives the 0 x 0 grid)
MaxWidth == 3
\* grid heights offered to with_size: 1..MaxHeight
MaxHeight == 2
\* number of method calls made on one Generator
MaxCalls == 3
\* number of room attempts asked of one Generator, over all its spawn_rooms calls
MaxAttempts == 2
\* octave counts offered to with_options: 1..MaxOctaves
MaxOctaves == 2
\* spawn_perlin is explored on maps that take at most this many noise samples
MaxSamples == 4

\* seeds offered to new and with_seed
Seeds == {0, 1}
\* tile numbers offered to spawn_rooms and set
Numbers == {1, 2}
GridWidths == 1..MaxWidth
GridHeights == 1..MaxHeight
\* coordinates offered to get and set: one past the largest grid on each axis
Xs == 0..MaxWidth
Ys == 0..MaxHeight
\* the values a single-octave noise sample takes, all within [-1, 1]
Samples == {-1, 0, 1}

(* --------------------------- usize arithmetic -------------------------- *)

\* a representative below zero stands for a value that wrapped past 2^64
Wrapped(v) == v < 0

\* unsigned <= on representatives
ULe(a, b) == IF Wrapped(a) = Wrapped(b) THEN a <= b ELSE Wrapped(b)

\* unsigned < on representatives
ULt(a, b) == ULe(a, b) /\ a # b

(* ------------------------------- types --------------------------------- *)

\* struct Size
Size(min_size, max_size) == [min_size |-> min_size, max_size |-> max_size]

\* the Size values offered to spawn_rooms: widths [1, 1) (empty), [1, 2) or
\* [MaxWidth, MaxWidth + 1) (wider than all grids but the widest), heights
\* [1, 2) or [1, 3)
Sizes ==
    { Size(<<a[1], 1>>, <<a[2], d>>) :
        a \in {<<1, 1>>, <<1, 2>>, <<MaxWidth, MaxWidth + 1>>}, d \in {2, 3} }

\* Room::new
Room_new(x, y, width, height) ==
    [x |-> x, y |-> y, x2 |-> x + width, y2 |-> y + height,
     width |-> width, height |-> height]

IntersectsTouchingAllowed(a, b) ==
    ULt(a.x, b.x2) /\ ULt(b.x, a.x2) /\ ULt(a.y, b.y2) /\ ULt(b.y, a.y2)

\* Room::intersects
intersects(a, b) ==
    ULe(a.x, b.x2) /\ ULe(b.x, a.x2) /\ ULe(a.y, b.y2) /\ ULe(b.y, a.y2)

\* impl Default for NoiseOptions
NoiseOptions_default == [frequency |-> 1, redistribution |-> 1, octaves |-> 1]

\* vec![0; n]
Zeros(n) == [k \in 1..n |-> 0]

\* the NoiseOptions values offered to with_options
OptionChoices ==
    [frequency : {1, 2}, redistribution : {0, 1, 2}, octaves : 1..MaxOctaves]

\* Generator::new: the derived Default with a seed
Generator_new(s) ==
    [map |-> <<>>, width |-> 0, height |-> 0,
     noise_options |-> NoiseOptions_default, rooms |-> <<>>, seed |-> s]

(* ---------------------------- builder calls --------------------------- *)

\* Generator::with_seed
with_seed(g, s) == [g EXCEPT !.seed = s]

\* Generator::with_options
with_options(g, options) == [g EXCEPT !.noise_options = options]

with_size_resize(g, w, h) ==
    [g EXCEPT !.map = [k \in 1..(w * h) |-> IF k <= Len(g.map) THEN g.map[k] ELSE 0],
              !.width = w, !.height = h]

\* Generator::with_size
with_size(g, w, h) == [g EXCEPT !.map = Zeros(w * h), !.width = w, !.height = h]

(* ---------------------------- get and set ------------------------------ *)

\* the flat index of (x, y)
Index(g, x, y) == x + y * g.width

\* Vec's bounds check on a flat index
InBounds(g, idx) == ~Wrapped(idx) /\ idx < Len(g.map)

\* Generator::get: the value read, or a panic
get(g, x, y) ==
    IF InBounds(g, Index(g, x, y))
    THEN [panic |-> FALSE, value |-> g.map[Index(g, x, y) + 1]]
    ELSE [panic |-> TRUE, value |-> 0]

\* Generator::set: the Generator afterwards, or a panic that leaves it as it was
set(g, x, y, value) ==
    IF InBounds(g, Index(g, x, y))
    THEN [panic |-> FALSE, g |-> [g EXCEPT !.map[Index(g, x, y) + 1] = value]]
    ELSE [panic |-> TRUE, g |-> g]

(* ----------------------------- spawn_room ------------------------------ *)

\* "shift room back on if it's off": the shifted origin; the subtraction
\* panics under overflow checks and wraps without them
Shift(origin, extent, limit, checks) ==
    IF origin + extent > limit
    THEN IF extent > limit /\ checks
         THEN [panic |-> TRUE, v |-> origin]
         ELSE [panic |-> FALSE, v |-> limit - extent]
    ELSE [panic |-> FALSE, v |-> origin]

\* the stamping loops of spawn_room from the k-th cell on (row-major over
\* 0..height, 0..width), stopping at the first set that panics
RECURSIVE Stamp(_, _, _, _)
Stamp(g, room, number, k) ==
    IF k >= room.width * room.height
    THEN [panic |-> FALSE, g |-> g]
    ELSE LET row == k \div room.width
             col == k % room.width
             r == set(g, room.x + col, room.y + row, number)
         IN IF r.panic THEN r ELSE Stamp(r.g, room, number, k + 1)

\* the candidate room of one attempt, after the shifts
Candidate(g, c, checks) ==
    Room_new(Shift(c.x, c.w, g.width, checks).v, Shift(c.y, c.h, g.height, checks).v,
             c.w, c.h)

CollidesNever(g, room) == FALSE

\* the collision loop of spawn_room
Collides(g, room) == \E k \in 1..Len(g.rooms) : intersects(room, g.rooms[k])

\* Generator::spawn_room with the four values drawn c = [x, y, w, h]
spawn_room(g, number, c, checks) ==
    LET sx == Shift(c.x, c.w, g.width, checks)
        sy == Shift(c.y, c.h, g.height, checks)
        room == Candidate(g, c, checks)
    IN IF sx.panic \/ sy.panic
       THEN [panic |-> TRUE, g |-> g, accepted |-> FALSE]
       ELSE IF Collides(g, room)
            THEN [panic |-> FALSE, g |-> g, accepted |-> FALSE]
            ELSE LET st == Stamp(g, room, number, 0)
                 IN IF st.panic
                    THEN [panic |-> TRUE, g |-> st.g, accepted |-> FALSE]
                    ELSE [panic |-> FALSE,
                          g |-> [st.g EXCEPT !.rooms = Append(st.g.rooms, room)],
                          accepted |-> TRUE]

\* the loop of spawn_rooms over the values drawn for its attempts, stopping
\* at the first attempt that panics; accepted tells, attempt by attempt,
\* whether the candidate was stamped and recorded
RECURSIVE Attempts(_, _, _, _)
Attempts(g, number, cands, checks) ==
    IF cands = <<>>
    THEN [panic |-> FALSE, g |-> g, accepted |-> <<>>]
    ELSE LET r == spawn_room(g, number, Head(cands), checks)
         IN IF r.panic
            THEN [panic |-> TRUE, g |-> r.g, accepted |-> <<FALSE>>]
            ELSE LET rest == Attempts(r.g, number, Tail(cands), checks)
                 IN [rest EXCEPT !.accepted = <<r.accepted>> \o @]

(* ------------------------------ the rng -------------------------------- *)

\* gen_range panics on an empty range
EmptyRange(lo, hi) == lo >= hi

\* the first gen_range of an attempt that panics does so before anything is
\* drawn or changed
DrawPanics(g, size) ==
    \/ EmptyRange(0, g.width)
    \/ EmptyRange(0, g.height)
    \/ EmptyRange(size.min_size[1], size.max_size[1])
    \/ EmptyRange(size.min_size[2], size.max_size[2])

\* the values the four gen_range calls of one attempt can return
Draws(g, size) ==
    [x : 0..(g.width - 1), y : 0..(g.height - 1),
     w : size.min_size[1]..(size.max_size[1] - 1),
     h : size.min_size[2]..(size.max_size[2] - 1)]

\* what determines the stream of spawn_rooms: the seed given to
\* seed_from_u64 and the ranges every attempt asks for
StreamKey(g, size) == <<g.seed, g.width, g.height, size>>

\* the values StdRng has been seen to produce for a key (r: key -> stream)
Known(r, key) == IF key \in DOMAIN r THEN r[key] ELSE <<>>

FreshStream(r, key, n) == <<>>

\* seed_from_u64(seed): what is known already of the first n values the
\* stream of key produces
SeededStream(r, key, n) ==
    SubSeq(Known(r, key), 1, IF n <= Len(Known(r, key)) THEN n ELSE Len(Known(r, key)))

\* r with the stream of key extended by what was drawn
Recorded(r, key, cands) ==
    [k \in DOMAIN r \cup {key} |->
        IF k = key
        THEN IF Len(cands) <= Len(Known(r, key)) THEN Known(r, key) ELSE cands
        ELSE r[k]]

\* sequences of n draws
RECURSIVE DrawSeqs(_, _)
DrawSeqs(D, n) ==
    IF n = 0 THEN {<<>>}
    ELSE { Append(s, d) : s \in DrawSeqs(D, n - 1), d \in D }

\* the values n attempts can draw: what the stream is known to produce,
\* then values not seen before
StreamsOf(g, r, size, n) ==
    LET known == SeededStream(r, StreamKey(g, size), n)
    IN { known \o t : t \in DrawSeqs(Draws(g, size), n - Len(known)) }

\* the draws one spawn_rooms call can make: count attempts, or fewer when
\* the last of them panics
Streams(g, r, number, count, size, checks) ==
    { cands \in UNION { StreamsOf(g, r, size, n) : n \in 0..count } :
        LET a == Attempts(g, number, cands, checks)
        IN /\ Len(a.accepted) = Len(cands)
           /\ Len(cands) = count \/ a.panic }

\* how a spawn_rooms call ends on the draws cands
Outcome(g, r, number, size, cands, checks) ==
    LET a == Attempts(g, number, cands, checks)
    IN [g |-> a.g, rng |-> Recorded(r, StreamKey(g, size), cands),
        panic |-> a.panic, cands |-> cands, accepted |-> a.accepted]

\* Generator::spawn_rooms: every way the call can end
spawn_rooms(g, r, number, count, size, checks) ==
    IF count > 0 /\ DrawPanics(g, size)
    THEN { [g |-> g, rng |-> r, panic |-> TRUE, cands |-> <<>>, accepted |-> <<>>] }
    ELSE { Outcome(g, r, number, size, cands, checks) :
           cands \in Streams(g, r, number, count, size, checks) }

(* ---------------------------- spawn_perlin ---------------------------- *)

\* f64 values are kept as exact fractions <<numerator, denominator>> in
\* lowest terms with a positive denominator; every value the model computes
\* (quotients by the width, multiples of powers of two of the samples) is
\* one the f64 operations give exactly or compare the same way

RECURSIVE GCD(_, _)
GCD(a, b) == IF b = 0 THEN a ELSE GCD(b, a % b)

Abs(n) == IF n < 0 THEN -n ELSE n

Frac(n, d) == LET k == GCD(Abs(n), d) IN <<n \div k, d \div k>>

RAdd(a, b) == Frac(a[1] * b[2] + b[1] * a[2], a[2] * b[2])

RMul(a, b) == Frac(a[1] * b[1], a[2] * b[2])

RECURSIVE Power(_, _)
Power(b, e) == IF e = 0 THEN 1 ELSE b * Power(b, e - 1)

\* f64::powf with an exponent that is a whole number
powf(v, e) == Frac(Power(v[1], e), Power(v[2], e))

\* the point the n-th octave samples for the cell at pos:
\* [nx * freq * power, ny * freq * power] with nx = x / width, ny = y / width
SamplePoint(g, pos, n) ==
    LET x == pos % g.width
        y == pos \div g.width
        freq == g.noise_options.frequency
        power == Power(2, n)
    IN <<Frac(x * freq * power, g.width), Frac(y * freq * power, g.width)>>

\* the points spawn_perlin samples, each with the seed given to Perlin::new
SamplePoints(g) ==
    { <<g.seed, SamplePoint(g, k - 1, n)>> :
        k \in 1..Len(g.map), n \in 0..(g.noise_options.octaves - 1) }

\* the fold over the octaves from octave n on: acc + modifier * perlin.get(..)
RECURSIVE Octaves(_, _, _, _, _)
Octaves(g, nz, pos, n, acc) ==
    IF n >= g.noise_options.octaves THEN acc
    ELSE LET modifier == <<1, Power(2, n)>>
             sample == <<nz[<<g.seed, SamplePoint(g, pos, n)>>], 1>>
         IN Octaves(g, nz, pos, n + 1, RAdd(acc, RMul(modifier, sample)))

\* (value.powf(redistribution) + 1.) / 2.
Normalized(g, value) ==
    RMul(RAdd(powf(value, g.noise_options.redistribution), <<1, 1>>), <<1, 2>>)

\* the value spawn_perlin passes to the closure for the cell at pos
Passed(g, nz, pos) == Normalized(g, Octaves(g, nz, pos, 0, <<0, 1>>))

\* the closure of the crate's tests, examples and benchmark:
\* value > 0.66 -> 2, value > 0.33 -> 1, else 0
f(value) ==
    IF 100 * value[1] > 66 * value[2] THEN 2
    ELSE IF 100 * value[1] > 33 * value[2] THEN 1
    ELSE 0

\* the ways Perlin::new(seed) can turn out on the points not sampled before
\* (nz: <<seed, point>> -> sample)
Sampled(g, nz) ==
    { [k \in DOMAIN nz \cup SamplePoints(g) |-> IF k \in DOMAIN nz THEN nz[k] ELSE a[k]] :
        a \in [SamplePoints(g) \ DOMAIN nz -> Samples] }

\* Generator::spawn_perlin with the closure f: every way the call can end
spawn_perlin(g, nz) ==
    { [g |-> [g EXCEPT !.map = [k \in 1..Len(g.map) |-> f(Passed(g, nz2, k - 1))]],
       noise |-> nz2,
       values |-> { Passed(g, nz2, k - 1) : k \in 1..Len(g.map) }] :
      nz2 \in Sampled(g, nz) }

(* ------------------------------ actions -------------------------------- *)

Ids == DOMAIN gen

Budget(i) == live[i] /\ calls[i] < MaxCalls

Called(i) == calls' = [calls EXCEPT ![i] = @ + 1]

Counts(i) == 0..(MaxAttempts - attempted[i])

\* Generator::new() after a panic dropped the Generator
New(i) ==
    /\ ~live[i]
    /\ \E s \in Seeds : gen' = [gen EXCEPT ![i] = Generator_new(s)]
    /\ live' = [live EXCEPT ![i] = TRUE]
    /\ last' = [id |-> i, op |-> "new", panic |-> FALSE]
    /\ UNCHANGED <<overflow_checks, rng, noise, calls, attempted>>

WithSeed(i) ==
    /\ Budget(i)
    /\ \E s \in Seeds :
         /\ gen' = [gen EXCEPT ![i] = with_seed(gen[i], s)]
         /\ last' = [id |-> i, op |-> "with_seed", panic |-> FALSE, seed |-> s]
    /\ Called(i)
    /\ UNCHANGED <<live, overflow_checks, rng, noise, attempted>>

WithSize(i) ==
    /\ Budget(i)
    /\ \E w \in GridWidths, h \in GridHeights :
         /\ gen' = [gen EXCEPT ![i] = with_size(gen[i], w, h)]
         /\ last' = [id |-> i, op |-> "with_size", panic |-> FALSE,
                     width |-> w, height |-> h]
    /\ Called(i)
    /\ UNCHANGED <<live, overflow_checks, rng, noise, attempted>>

WithOptions(i) ==
    /\ Budget(i)
    /\ \E options \in OptionChoices :
         /\ gen' = [gen EXCEPT ![i] = with_options(gen[i], options)]
         /\ last' = [id |-> i, op |-> "with_options", panic |-> FALSE,
                     options |-> options]
    /\ Called(i)
    /\ UNCHANGED <<live, overflow_checks, rng, noise, attempted>>

SpawnPerlin(i) ==
    /\ Budget(i)
    /\ Len(gen[i].map) * gen[i].noise_options.octaves <= MaxSamples
    /\ \E o \in spawn_perlin(gen[i], noise) :
         /\ gen' = [gen EXCEPT ![i] = o.g]
         /\ noise' = o.noise
         /\ last' = [id |-> i, op |-> "spawn_perlin", panic |-> FALSE,
                     values |-> o.values]
    /\ Called(i)
    /\ UNCHANGED <<live, overflow_checks, rng, attempted>>

\* get borrows the Generator: a panic leaves it as it was
Get(i) ==
    /\ Budget(i)
    /\ \E x \in Xs, y \in Ys :
         last' = [id |-> i, op |-> "get", panic |-> get(gen[i], x, y).panic,
                  x |-> x, y |-> y, value |-> get(gen[i], x, y).value]
    /\ Called(i)
    /\ UNCHANGED <<gen, live, overflow_checks, rng, noise, attempted>>

\* set borrows the Generator: a panic leaves it as it was
Set(i) ==
    /\ Budget(i)
    /\ \E x \in Xs, y \in Ys, value \in Numbers :
         /\ gen' = [gen EXCEPT ![i] = set(gen[i], x, y, value).g]
         /\ last' = [id |-> i, op |-> "set", panic |-> set(gen[i], x, y, value).panic,
                     x |-> x, y |-> y, value |-> value]
    /\ Called(i)
    /\ UNCHANGED <<live, overflow_checks, rng, noise, attempted>>

\* spawn_rooms takes the Generator by value: a panic drops it
SpawnRooms(i) ==
    /\ Budget(i)
    /\ \E number \in Numbers, count \in Counts(i), size \in Sizes :
       \E o \in spawn_rooms(gen[i], rng, number, count, size, overflow_checks) :
         /\ gen' = [gen EXCEPT ![i] = o.g]
         /\ rng' = o.rng
         /\ live' = [live EXCEPT ![i] = ~o.panic]
         /\ attempted' = [attempted EXCEPT ![i] = @ + count]
         /\ last' = [id |-> i, op |-> "spawn_rooms", panic |-> o.panic,
                     number |-> number, count |-> count, size |-> size,
                     cands |-> o.cands, accepted |-> o.accepted]
    /\ Called(i)
    /\ UNCHANGED <<overflow_checks, noise>>

(* ------------------------- claims on the rooms ------------------------- *)

\* the inclusive-bound intersection predicate of the specification
InclusiveOverlap(a, b) ==
    ULe(a.x, b.x2) /\ ULe(b.x, a.x2) /\ ULe(a.y, b.y2) /\ ULe(b.y, a.y2)

\* the Generator as it is after the first k attempts of the call that is
\* being made on the Generator g with the draws cands
AfterAttempt(g, number, cands, k) ==
    Attempts(g, number, SubSeq(cands, 1, k), overflow_checks).g

\* this step is a spawn_rooms call
IsSpawnRooms == calls' # calls /\ last'.op = "spawn_rooms"

\* C1: whatever with_size, with_seed and spawn_rooms calls were made, no two
\* distinct rooms of a Generator's accepted-room history satisfy the
\* inclusive-bound intersection predicate.
C1_AcceptedRoomsNeverIntersect ==
    \A i \in Ids : \A a, b \in 1..Len(gen[i].rooms) :
        a # b => ~InclusiveOverlap(gen[i].rooms[a], gen[i].rooms[b])

\* two rooms accepted by two different spawn_rooms calls
C1_Witness ==
    /\ last.op = "spawn_rooms" /\ ~last.panic
    /\ last.count = 1 /\ last.accepted = <<TRUE>>
    /\ Len(gen[1].rooms) = 2
    /\ \A k \in 1..2 : ~Wrapped(gen[1].rooms[k].x) /\ gen[1].rooms[k].width > 0

\* the rectangle of room r lies within the grid of g
WithinGrid(r, g) ==
    /\ ~Wrapped(r.x) /\ r.x2 = r.x + r.width /\ r.x2 <= g.width
    /\ ~Wrapped(r.y) /\ r.y2 = r.y + r.height /\ r.y2 <= g.height

\* C2: every room of the accepted-room history lies fully within the grid
\* of the Generator's current width and height.
C2_AcceptedRoomsWithinGrid ==
    \A i \in Ids : \A k \in 1..Len(gen[i].rooms) : WithinGrid(gen[i].rooms[k], gen[i])

\* a Size with an empty range, or draws of a room larger than the grid
InvalidConfiguration(g, size, cands) ==
    \/ size.min_size[1] >= size.max_size[1]
    \/ size.min_size[2] >= size.max_size[2]
    \/ \E k \in 1..Len(cands) : cands[k].w > g.width \/ cands[k].h > g.height

\* C5: a spawn_rooms call that makes attempts with an invalid configuration
\* ends in an error and leaves the map and the accepted-room history as they
\* were.
C5_InvalidConfigurationFailsFast ==
    [][(IsSpawnRooms /\ last'.count > 0
          /\ InvalidConfiguration(gen[last'.id], last'.size, last'.cands))
       => (last'.panic /\ gen' = gen)]_vars

\* C8: one spawn_rooms call makes at most count attempts, exactly count when
\* it returns, adds at most count rooms to the history and removes none, and
\* an attempt whose candidate intersects a room accepted before it leaves
\* the map and the history as they were before that attempt.
C8_BestEffortPlacement ==
    [][IsSpawnRooms =>
        LET i == last'.id
            n == Len(last'.cands)
            at(k) == AfterAttempt(gen[i], last'.number, last'.cands, k)
        IN /\ n <= last'.count
           /\ ~last'.panic => n = last'.count
           /\ Len(gen'[i].rooms) <= Len(gen[i].rooms) + last'.count
           /\ SubSeq(gen'[i].rooms, 1, Len(gen[i].rooms)) = gen[i].rooms
           /\ at(n) = gen'[i]
           /\ \A k \in 1..n :
                (\E j \in 1..Len(at(k - 1).rooms) :
                    InclusiveOverlap(
                        Candidate(at(k - 1), last'.cands[k], overflow_checks),
                        at(k - 1).rooms[j]))
                => at(k) = at(k - 1)]_vars

\* a call of two attempts returned, its second candidate discarded for
\* intersecting the room its first attempt had stamped
C8_Witness ==
    /\ last.op = "spawn_rooms" /\ ~last.panic
    /\ last.count = 2 /\ last.accepted = <<TRUE, FALSE>>
    /\ Len(gen[1].rooms) = 1
    /\ \E k \in 1..Len(gen[1].map) : gen[1].map[k] = last.number

\* the cell (cx, cy) lies in the rectangle of room r
InRect(r, cx, cy) ==
    /\ ~Wrapped(r.x) /\ r.x <= cx /\ cx < r.x + r.width
    /\ ~Wrapped(r.y) /\ r.y <= cy /\ cy < r.y + r.height

\* C9: an attempt that adds its candidate to the history leaves every cell
\* of the candidate's rectangle holding the tile number and every other
\* cell as it was, and appends exactly that room.
C9_AcceptedRoomIsStamped ==
    [][IsSpawnRooms =>
        LET i == last'.id
            n == Len(last'.cands)
            at(k) == AfterAttempt(gen[i], last'.number, last'.cands, k)
        IN /\ at(n) = gen'[i]
           /\ \A k \in 1..n :
                LET b == at(k - 1)
                    a == at(k)
                    room == Candidate(b, last'.cands[k], overflow_checks)
                IN Len(a.rooms) > Len(b.rooms) =>
                     /\ a.rooms = Append(b.rooms, room)
                     /\ Len(a.map) = Len(b.map)
                     /\ \A cx \in 0..(b.width - 1), cy \in 0..(b.height - 1) :
                          a.map[cx + cy * b.width + 1] =
                            IF InRect(room, cx, cy) THEN last'.number
                            ELSE b.map[cx + cy * b.width + 1]]_vars

\* C10: a spawn_rooms call that repeats the call before it on the same
\* Generator, with the same count and the same Size, changes neither the
\* map nor the accepted-room history.
C10_RepeatedCallIsIdempotent ==
    [][(IsSpawnRooms /\ last.op = "spawn_rooms" /\ ~last.panic
          /\ last'.id = last.id /\ last'.count = last.count /\ last'.size = last.size)
       => (gen'[last.id].map = gen[last.id].map
           /\ gen'[last.id].rooms = gen[last.id].rooms)]_vars

(* ---------------------- claims on the grid and noise ------------------- *)

\* this step is a call of one of the methods named
IsCall(ops) == calls' # calls /\ last'.op \in ops

\* C3: the map always holds width * height cells; with_size(w, h) leaves
\* width = w, height = h and w * h cells that are all 0; with_seed,
\* with_options, spawn_perlin, spawn_rooms and set change neither width nor
\* height nor the length of the map.
C3_MapLengthIsWidthTimesHeight ==
    /\ [](\A i \in Ids :
            /\ Len(gen[i].map) = gen[i].width * gen[i].height
            /\ (last.id = i /\ last.op = "with_size") =>
                 /\ gen[i].width = last.width /\ gen[i].height = last.height
                 /\ gen[i].map = [k \in 1..(last.width * last.height) |-> 0])
    /\ [][IsCall({"with_seed", "with_options", "spawn_perlin", "spawn_rooms", "set"})
          => \A i \in Ids :
               /\ gen'[i].width = gen[i].width
               /\ gen'[i].height = gen[i].height
               /\ Len(gen'[i].map) = Len(gen[i].map)]_vars

\* with_size has just re-zeroed a map on which rooms had been stamped
C3_Witness ==
    /\ last.op = "with_size"
    /\ Len(gen[1].rooms) > 0
    /\ \E k \in 1..Len(gen[1].rooms) : gen[1].rooms[k].width > 0
    /\ Len(gen[1].map) > 0
    /\ \A k \in 1..Len(gen[1].map) : gen[1].map[k] = 0

\* C4: get and set with x >= width or y >= height end in a bounds violation
\* and leave the map as it was.
C4_OutOfRangeAccessFails ==
    [][(IsCall({"get", "set"})
          /\ (last'.x >= gen[last'.id].width \/ last'.y >= gen[last'.id].height))
       => (last'.panic /\ gen' = gen)]_vars

\* C6: every value spawn_perlin passes to the closure lies within [0, 1]
\* (the octave count is at least 1, the redistribution exponent at least 0
\* and every sample within [-1, 1] in all the calls explored).
C6_ClassifierInputWithinUnitInterval ==
    last.op = "spawn_perlin" =>
        \A v \in last.values : 0 <= v[1] /\ v[1] <= v[2]

(* ------------------- the same calls on two Generators ------------------ *)

BothLive == \A i \in Ids : Budget(i)

BothCalled == calls' = [i \in Ids |-> calls[i] + 1]

\* the two Generators hold the same seed
SameSeed == gen[1].seed = gen[2].seed

BothWithSeed ==
    /\ BothLive
    /\ \E s \in Seeds :
         /\ gen' = [i \in Ids |-> with_seed(gen[i], s)]
         /\ last' = [id |-> 1, op |-> "with_seed", panic |-> FALSE, seed |-> s]
    /\ BothCalled
    /\ UNCHANGED <<live, overflow_checks, rng, noise, attempted>>

BothWithSize ==
    /\ BothLive
    /\ \E w \in GridWidths, h \in GridHeights :
         /\ gen' = [i \in Ids |-> with_size(gen[i], w, h)]
         /\ last' = [id |-> 1, op |-> "with_size", panic |-> FALSE,
                     width |-> w, height |-> h]
    /\ BothCalled
    /\ UNCHANGED <<live, overflow_checks, rng, noise, attempted>>

BothWithOptions ==
    /\ BothLive
    /\ \E options \in OptionChoices :
         /\ gen' = [i \in Ids |-> with_options(gen[i], options)]
         /\ last' = [id |-> 1, op |-> "with_options", panic |-> FALSE,
                     options |-> options]
    /\ BothCalled
    /\ UNCHANGED <<live, overflow_checks, rng, noise, attempted>>

BothSpawnPerlin ==
    /\ BothLive /\ SameSeed
    /\ \A i \in Ids : Len(gen[i].map) * gen[i].noise_options.octaves <= MaxSamples
    /\ \E o1 \in spawn_perlin(gen[1], noise) :
       \E o2 \in spawn_perlin(gen[2], o1.noise) :
         /\ gen' = [i \in Ids |-> IF i = 1 THEN o1.g ELSE o2.g]
         /\ noise' = o2.noise
         /\ last' = [id |-> 1, op |-> "spawn_perlin", panic |-> FALSE,
                     values |-> o1.values \cup o2.values]
    /\ BothCalled
    /\ UNCHANGED <<live, overflow_checks, rng, attempted>>

BothSpawnRooms ==
    /\ BothLive /\ SameSeed
    /\ \E number \in Numbers, count \in Counts(1), size \in Sizes :
       \E o1 \in spawn_rooms(gen[1], rng, number, count, size, overflow_checks) :
       \E o2 \in spawn_rooms(gen[2], o1.rng, number, count, size, overflow_checks) :
         /\ gen' = [i \in Ids |-> IF i = 1 THEN o1.g ELSE o2.g]
         /\ rng' = o2.rng
         /\ live' = [i \in Ids |-> IF i = 1 THEN ~o1.panic ELSE ~o2.panic]
         /\ attempted' = [i \in Ids |-> attempted[i] + count]
         /\ last' = [id |-> 1, op |-> "spawn_rooms", panic |-> o1.panic \/ o2.panic,
                     number |-> number, count |-> count, size |-> size,
                     cands |-> o1.cands, accepted |-> o1.accepted]
    /\ BothCalled
    /\ UNCHANGED <<overflow_checks, noise>>

\* C7: two Generators that were given the same calls with the same
\* arguments, and held the same seed in every spawn_perlin and spawn_rooms
\* call, hold identical maps and identical accepted-room histories (and
\* either both were dropped by a panic or neither was).
C7_SameSeedSameResult ==
    /\ gen[1].map = gen[2].map
    /\ gen[1].rooms = gen[2].rooms
    /\ live[1] = live[2]

\* both Generators ran spawn_perlin and then spawn_rooms, and a room was
\* accepted on a map that spawn_perlin had filled
C7_Witness ==
    /\ last.op = "spawn_rooms" /\ ~last.panic
    /\ noise # <<>>
    /\ Len(gen[1].rooms) > 0 /\ Len(gen[2].rooms) > 0
    /\ \E k \in 1..Len(gen[2].map) : gen[2].map[k] \notin {0, last.number}

(* --------------------------- specifications ---------------------------- *)

InitOf(ids) ==
    /\ \E s \in [ids -> Seeds] : gen = [i \in ids |-> Generator_new(s[i])]
    /\ live = [i \in ids |-> TRUE]
    /\ overflow_checks \in BOOLEAN
    /\ rng = <<>>
    /\ noise = <<>>
    /\ last = [id |-> 1, op |-> "new", panic |-> FALSE]
    /\ calls = [i \in ids |-> 0]
    /\ attempted = [i \in ids |-> 0]

\* one Generator under with_seed, with_size and spawn_rooms
InitRooms == InitOf({1})

NextRooms ==
    \/ New(1)
    \/ WithSeed(1)
    \/ WithSize(1)
    \/ SpawnRooms(1)

SpecRooms == InitRooms /\ [][NextRooms]_vars

\* one Generator under with_seed, with_size, with_options and spawn_perlin
InitPerlin == InitOf({1})

NextPerlin ==
    \/ WithSeed(1)
    \/ WithSize(1)
    \/ WithOptions(1)
    \/ SpawnPerlin(1)

SpecPerlin == InitPerlin /\ [][NextPerlin]_vars

\* one Generator under all its methods
Init == InitOf({1})

Next ==
    \/ New(1)
    \/ WithSeed(1)
    \/ WithSize(1)
    \/ WithOptions(1)
    \/ SpawnPerlin(1)
    \/ SpawnRooms(1)
    \/ Get(1)
    \/ Set(1)

Spec == Init /\ [][Next]_vars

\* two Generators given the same calls, their generation calls made while
\* they hold the same seed
InitDet == InitOf({1, 2})

NextDet ==
    \/ BothWithSeed
    \/ BothWithSize
    \/ BothWithOptions
    \/ BothSpawnPerlin
    \/ BothSpawnRooms

SpecDet == InitDet /\ [][NextDet]_vars

====
